---- MODULE Spec2Model ----
(***************************************************************************)
(* A model of src/main.ts (the ANT plugin): MyPlugin with its settings,    *)
(* its one-shot quiz timer and its note-change handler, and the two        *)
(* onChange handlers of MyPlugginSettingTab.  The host (Obsidian and the   *)
(* browser's timer table) appears only as far as the plugin calls it:      *)
(* loadData/saveData, vault.read, window.setTimeout/clearTimeout.          *)
(***************************************************************************)
EXTENDS Integers, Sequences, FiniteSets, TLC

VARIABLES
    loaded,        \* onload has run (settings loaded, timer started, handlers registered)
    unloaded,      \* onunload has run (the host has dropped the registered handlers)
    stored,        \* the plugin's persisted data (data.json), as loadData returns it
    settings,      \* this.settings
    timer,         \* this.timer: 0 for null, otherwise a timer handle
    pending,       \* the host's timer table: the scheduled, not yet fired, not cleared timeouts
    nextHandle,    \* the handle the next window.setTimeout returns
    now,           \* the clock, in minutes since onload
    doc,           \* the current content of the note
    reading,       \* the number of handleNoteChange calls waiting on vault.read
    saving,        \* the saveData calls in flight, oldest first
    quizByTimer,   \* triggerQuiz calls made by the timer callback
    quizByChange,  \* triggerQuiz calls made by handleNoteChange
    rejected,      \* promises of async handlers that rejected with nobody handling them
    delivered,     \* 'modify' events delivered so far
    updates,       \* settings onChange events delivered so far
    timerLog       \* history: every startTimer call and every timer callback, in order

vars == <<loaded, unloaded, stored, settings, timer, pending, nextHandle, now, doc,
          reading, saving, quizByTimer, quizByChange, rejected, delivered, updates,
          timerLog>>

----------------------------------------------------------------------------
(* Bounds of the model. *)

MaxNow == 7
MaxInputs == 2
MaxLen == 4
MaxSessions == 2

----------------------------------------------------------------------------
(* JavaScript values of the two settings fields.  A field holds a number,  *)
(* NaN (parseInt of a text with no leading digits), null (what JSON makes  *)
(* of NaN), a string (a data.json edited by hand) or, before loadSettings, *)
(* undefined.                                                              *)

Num(n) == [t |-> "num", n |-> n]
NaN == [t |-> "nan", n |-> 0]
Null == [t |-> "null", n |-> 0]
Str == [t |-> "str", n |-> 0]
Undefined == [t |-> "undefined", n |-> 0]

\* ToNumber, as the operators * and >= apply it: null is 0, a non-numeric
\* string and undefined are NaN.
ToNumber(v) ==
    CASE v.t = "num" -> v
      [] v.t = "null" -> Num(0)
      [] OTHER -> NaN

IsNum(v) == v.t = "num"

\* a * b
Times(a, b) ==
    IF IsNum(ToNumber(a)) /\ IsNum(ToNumber(b))
    THEN Num(ToNumber(a).n * ToNumber(b).n)
    ELSE NaN

\* a >= b: false as soon as one side is NaN
GreaterEq(a, b) ==
    /\ IsNum(ToNumber(a))
    /\ IsNum(ToNumber(b))
    /\ ToNumber(a).n >= ToNumber(b).n

\* JSON.stringify followed by JSON.parse: NaN becomes null
ToJson(v) == IF v.t = "nan" THEN Null ELSE v

DefaultTimeInterval == 5
DefaultWordCountThreshold == 500

DEFAULT_SETTINGS ==
    [timeInterval |-> Num(DefaultTimeInterval),
     wordCountThreshold |-> Num(DefaultWordCountThreshold)]

EmptyObject == [f \in {} |-> Null]

\* Object.assign(target, source): the source's own fields over the target's
ObjectAssign(target, source) ==
    [f \in (DOMAIN target) \cup (DOMAIN source) |->
        IF f \in DOMAIN source THEN source[f] ELSE target[f]]


\* a loadSettings with the defaults laid over the persisted data
LoadSettingsDefaultsLast(st) ==
    IF st.present
    THEN ObjectAssign(ObjectAssign(EmptyObject, st.data), DEFAULT_SETTINGS)
    ELSE ObjectAssign(EmptyObject, DEFAULT_SETTINGS)

\* loadSettings: Object.assign({}, DEFAULT_SETTINGS, await this.loadData());
\* loadData gives null when nothing is persisted, and Object.assign skips a
\* null source
LoadSettings(st) ==
    IF st.present
    THEN ObjectAssign(ObjectAssign(EmptyObject, DEFAULT_SETTINGS), st.data)
    ELSE ObjectAssign(EmptyObject, DEFAULT_SETTINGS)

\* saveData(this.settings): the settings as JSON writes and reads them back
SaveData(s) == [present |-> TRUE, data |-> [f \in DOMAIN s |-> ToJson(s[f])]]

----------------------------------------------------------------------------
(* Text: a string is a sequence of one-character strings. *)

WhiteSpace == {" ", "\t", "\n"}
IsSpace(c) == c \in WhiteSpace

Digits == <<"0", "1", "2", "3", "4", "5", "6", "7", "8", "9">>
IsDigit(c) == \E i \in 1..Len(Digits) : Digits[i] = c
DigitValue(c) == (CHOOSE i \in 1..Len(Digits) : Digits[i] = c) - 1

RECURSIVE DigitsValue(_)
DigitsValue(ds) ==
    IF ds = <<>> THEN 0
    ELSE DigitsValue(SubSeq(ds, 1, Len(ds) - 1)) * 10 + DigitValue(ds[Len(ds)])

\* parseInt(value): leading white space is skipped, then an optional sign,
\* then the longest run of decimal digits; NaN when that run is empty
ParseInt(s) ==
    LET n == Len(s)
        first == CHOOSE i \in 1..(n + 1) :
                    /\ \A j \in 1..(i - 1) : IsSpace(s[j])
                    /\ (i = n + 1 \/ ~IsSpace(s[i]))
        signed == first <= n /\ s[first] \in {"-", "+"}
        sign == IF first <= n /\ s[first] = "-" THEN -1 ELSE 1
        start == IF signed THEN first + 1 ELSE first
        last == CHOOSE e \in (start - 1)..n :
                    /\ \A j \in start..e : IsDigit(s[j])
                    /\ (e = n \/ ~IsDigit(s[e + 1]))
    IN  IF last < start THEN NaN ELSE Num(sign * DigitsValue(SubSeq(s, start, last)))

\* the index after the run of white space that starts at q
RECURSIVE EndOfRun(_, _)
EndOfRun(s, q) ==
    IF q <= Len(s) /\ IsSpace(s[q]) THEN EndOfRun(s, q + 1) ELSE q

\* content.split(/\s+/) from position q on, the current piece starting at p
RECURSIVE SplitFrom(_, _, _)
SplitFrom(s, p, q) ==
    IF q > Len(s) THEN <<SubSeq(s, p, Len(s))>>
    ELSE IF IsSpace(s[q])
         THEN <<SubSeq(s, p, q - 1)>> \o SplitFrom(s, EndOfRun(s, q), EndOfRun(s, q))
         ELSE SplitFrom(s, p, q + 1)

\* content.split(/\s+/): the empty string splits into one empty piece
Split(s) == IF s = <<>> THEN << <<>> >> ELSE SplitFrom(s, 1, 1)

\* a count that keeps the empty pieces
KeepEmptyPieces(pieces) == pieces

\* .filter(Boolean): the empty string is falsy
FilterBoolean(pieces) == SelectSeq(pieces, LAMBDA x : x # <<>>)

\* const wordCount = content.split(/\s+/).filter(Boolean).length;
WordCount(content) == Len(FilterBoolean(Split(content)))

----------------------------------------------------------------------------
(* The timer. *)

MsPerMinute == 60000

\* a startTimer that takes the interval for seconds
DelayMsInSeconds(s) == Times(s.timeInterval, Num(1000))

\* this.settings.timeInterval * 60000
DelayMs(s) == Times(s.timeInterval, Num(MsPerMinute))

\* window.setTimeout's reading of its delay: NaN and negative delays are 0
TimeoutDelay(d) == IF IsNum(d) /\ d.n > 0 THEN d.n ELSE 0

\* clearTimeout(h) on the host's timer table
ClearTimeout(h, table) == {p \in table : p.h # h}

\* a startTimer that leaves the existing timeout alone
KeepExisting(t, table) == table

\* if(this.timer !== null) clearTimeout(this.timer);
ClearExisting(t, table) == IF t # 0 THEN ClearTimeout(t, table) ELSE table

\* a startTimer that keeps a pending timeout instead of replacing it
StartTimerUnlessPending(s) ==
    /\ pending' = IF pending # {} THEN pending
                  ELSE {[h |-> nextHandle,
                         at |-> now * MsPerMinute + TimeoutDelay(DelayMs(s))]}
    /\ timer' = IF pending # {} THEN timer ELSE nextHandle
    /\ nextHandle' = nextHandle + 1
    /\ timerLog' = Append(timerLog,
                          [op |-> "arm", h |-> nextHandle, at |-> now * MsPerMinute,
                           iv |-> s.timeInterval])

\* startTimer, run with the settings s
StartTimerWith(s) ==
    /\ pending' = ClearExisting(timer, pending) \cup
                    {[h |-> nextHandle,
                      at |-> now * MsPerMinute + TimeoutDelay(DelayMs(s))]}
    /\ timer' = nextHandle
    /\ nextHandle' = nextHandle + 1
    /\ timerLog' = Append(timerLog,
                          [op |-> "arm", h |-> nextHandle, at |-> now * MsPerMinute,
                           iv |-> s.timeInterval])

----------------------------------------------------------------------------
(* The state after construction: nothing loaded, this.timer null, and a    *)
(* data.json as an earlier session or the user left it.                    *)

PersistedStates ==
    { [present |-> FALSE, data |-> EmptyObject],
      [present |-> TRUE, data |-> [timeInterval |-> Num(2)]],
      [present |-> TRUE, data |-> [wordCountThreshold |-> Num(1)]],
      [present |-> TRUE, data |-> [timeInterval |-> Num(1), wordCountThreshold |-> Num(2)]],
      [present |-> TRUE, data |-> [timeInterval |-> Null, wordCountThreshold |-> Num(2)]],
      [present |-> TRUE, data |-> [timeInterval |-> Num(2), wordCountThreshold |-> Str]] }

\* the characters of the notes, and every note of at most MaxLen characters
Alphabet == {"a", " ", "\n"}
Texts == UNION {[1..n -> Alphabet] : n \in 0..MaxLen}

\* the notes' contents in the plugin's runs
Contents == { <<>>, <<"a">>, <<"a", " ", "b">> }

\* the texts typed into the settings fields
Inputs == { <<>>, <<"a">>, <<"0">>, <<"-", "1">>, <<" ", "1", "a">> }

Init ==
    /\ loaded = FALSE
    /\ unloaded = FALSE
    /\ stored \in PersistedStates
    /\ settings = [timeInterval |-> Undefined, wordCountThreshold |-> Undefined]
    /\ timer = 0
    /\ pending = {}
    /\ nextHandle = 1
    /\ now = 0
    /\ doc = <<>>
    /\ reading = 0
    /\ saving = <<>>
    /\ quizByTimer = 0
    /\ quizByChange = 0
    /\ rejected = 0
    /\ delivered = 0
    /\ updates = 0
    /\ timerLog = <<>>

----------------------------------------------------------------------------
(* The operations. *)

\* what the plugin's environment has asked of it so far: 'modify' events,
\* settings edits, calls of startTimer after onload's
InputsSoFar == delivered + updates + (IF nextHandle > 1 THEN nextHandle - 2 ELSE 0)

\* onload: await this.loadSettings(); this.startTimer(); then the
\* registrations (settings tab, 'modify' subscription)
OnLoad ==
    /\ ~loaded
    /\ loaded' = TRUE
    /\ settings' = LoadSettings(stored)
    /\ StartTimerWith(LoadSettings(stored))
    /\ UNCHANGED <<unloaded, stored, now, doc, reading, saving, quizByTimer,
                   quizByChange, rejected, delivered, updates>>

\* onunload: its body is empty; the host drops what onload registered
OnUnload ==
    /\ loaded
    /\ ~unloaded
    /\ unloaded' = TRUE
    /\ UNCHANGED <<loaded, stored, settings, timer, pending, nextHandle, now, doc,
                   reading, saving, quizByTimer, quizByChange, rejected, delivered,
                   updates, timerLog>>

\* a further call of the public method startTimer
StartTimer ==
    /\ loaded
    /\ InputsSoFar < MaxInputs
    /\ StartTimerWith(settings)
    /\ UNCHANGED <<loaded, unloaded, stored, settings, now, doc, reading, saving,
                   quizByTimer, quizByChange, rejected, delivered, updates>>

\* one minute passes.  The clock is read only to tell when a timeout is
\* due, so it is advanced only while one is pending; the host runs a
\* timeout when it is due, so time does not pass a due timeout
Tick ==
    /\ loaded
    /\ now < MaxNow
    /\ pending # {}
    /\ \A p \in pending : p.at > now * MsPerMinute
    /\ now' = now + 1
    /\ UNCHANGED <<loaded, unloaded, stored, settings, timer, pending, nextHandle, doc,
                   reading, saving, quizByTimer, quizByChange, rejected, delivered,
                   updates, timerLog>>

\* a timeout callback that schedules itself again
TimerExpireRearms(p) ==
    /\ p \in pending
    /\ p.at <= now * MsPerMinute
    /\ pending' = (pending \ {p}) \cup
                    {[h |-> p.h, at |-> now * MsPerMinute + TimeoutDelay(DelayMs(settings))]}
    /\ quizByTimer' = quizByTimer + 1
    /\ timerLog' = Append(timerLog,
                          [op |-> "fire", h |-> p.h, at |-> now * MsPerMinute, iv |-> Null])
    /\ UNCHANGED <<loaded, unloaded, stored, settings, timer, nextHandle, now, doc,
                   reading, saving, quizByChange, rejected, delivered, updates>>

\* a timeout callback that sets this.timer back to null
TimerExpireClearsHandle(p) ==
    /\ p \in pending
    /\ p.at <= now * MsPerMinute
    /\ pending' = pending \ {p}
    /\ timer' = 0
    /\ quizByTimer' = quizByTimer + 1
    /\ timerLog' = Append(timerLog,
                          [op |-> "fire", h |-> p.h, at |-> now * MsPerMinute, iv |-> Null])
    /\ UNCHANGED <<loaded, unloaded, stored, settings, nextHandle, now, doc,
                   reading, saving, quizByChange, rejected, delivered, updates>>

\* the host runs a due timeout: () => { this.triggerQuiz(); }
TimerExpire(p) ==
    /\ p \in pending
    /\ p.at <= now * MsPerMinute
    /\ pending' = pending \ {p}
    /\ quizByTimer' = quizByTimer + 1
    /\ timerLog' = Append(timerLog,
                          [op |-> "fire", h |-> p.h, at |-> now * MsPerMinute, iv |-> Null])
    /\ UNCHANGED <<loaded, unloaded, stored, settings, timer, nextHandle, now, doc,
                   reading, saving, quizByChange, rejected, delivered, updates>>

\* the vault's 'modify' event: the note now holds c, and handleNoteChange
\* runs up to its await of this.app.vault.read(file)
Modify(c) ==
    /\ loaded
    /\ ~unloaded
    /\ InputsSoFar < MaxInputs
    /\ doc' = c
    /\ reading' = reading + 1
    /\ delivered' = delivered + 1
    /\ UNCHANGED <<loaded, unloaded, stored, settings, timer, pending, nextHandle, now,
                   saving, quizByTimer, quizByChange, rejected, updates, timerLog>>

\* a comparison that wants the count above the threshold
ThresholdExceeded(wordCount, s) ==
    /\ GreaterEq(Num(wordCount), s.wordCountThreshold)
    /\ Num(wordCount) # ToNumber(s.wordCountThreshold)

\* if (wordCount >= this.settings.wordCountThreshold)
ThresholdMet(wordCount, s) == GreaterEq(Num(wordCount), s.wordCountThreshold)

\* a handleNoteChange that triggers once and then stays quiet
ReadOkLatched ==
    /\ reading > 0
    /\ reading' = reading - 1
    /\ quizByChange' = IF ThresholdMet(WordCount(doc), settings) /\ quizByChange = 0
                       THEN quizByChange + 1 ELSE quizByChange
    /\ UNCHANGED <<loaded, unloaded, stored, settings, timer, pending, nextHandle, now,
                   doc, saving, quizByTimer, rejected, delivered, updates, timerLog>>

\* a handleNoteChange that restarts the timer when it triggers
ReadOkRestartsTimer ==
    /\ reading > 0
    /\ reading' = reading - 1
    /\ IF ThresholdMet(WordCount(doc), settings)
       THEN quizByChange' = quizByChange + 1 /\ StartTimerWith(settings)
       ELSE UNCHANGED <<quizByChange, timer, pending, nextHandle, timerLog>>
    /\ UNCHANGED <<loaded, unloaded, stored, settings, now, doc, saving, quizByTimer,
                   rejected, delivered, updates>>

\* a handleNoteChange that compares with the default threshold
ReadOkDefaultThreshold ==
    /\ reading > 0
    /\ reading' = reading - 1
    /\ quizByChange' = IF ThresholdMet(WordCount(doc), DEFAULT_SETTINGS)
                       THEN quizByChange + 1 ELSE quizByChange
    /\ UNCHANGED <<loaded, unloaded, stored, settings, timer, pending, nextHandle, now,
                   doc, saving, quizByTimer, rejected, delivered, updates, timerLog>>

\* vault.read resolves: the rest of handleNoteChange
ReadOk ==
    /\ reading > 0
    /\ reading' = reading - 1
    /\ quizByChange' = IF ThresholdMet(WordCount(doc), settings)
                       THEN quizByChange + 1 ELSE quizByChange
    /\ UNCHANGED <<loaded, unloaded, stored, settings, timer, pending, nextHandle, now,
                   doc, saving, quizByTimer, rejected, delivered, updates, timerLog>>

\* vault.read rejects: handleNoteChange's promise rejects, and the 'modify'
\* callback has dropped that promise
ReadFail ==
    /\ reading > 0
    /\ reading' = reading - 1
    /\ rejected' = rejected + 1
    /\ UNCHANGED <<loaded, unloaded, stored, settings, timer, pending, nextHandle, now,
                   doc, saving, quizByTimer, quizByChange, delivered, updates, timerLog>>

\* an onChange of the time interval field that restarts the timer
ChangeTimeIntervalRestarts(value) ==
    /\ loaded
    /\ ~unloaded
    /\ InputsSoFar < MaxInputs
    /\ settings.timeInterval # Null
    /\ settings' = [settings EXCEPT !.timeInterval = ParseInt(value)]
    /\ saving' = Append(saving, SaveData(settings'))
    /\ updates' = updates + 1
    /\ StartTimerWith(settings')
    /\ UNCHANGED <<loaded, unloaded, stored, now, doc, reading, quizByTimer,
                   quizByChange, rejected, delivered>>

\* onChange of the time interval field, up to its await of saveSettings;
\* display() shows the field only if timeInterval.toString() did not throw
ChangeTimeInterval(value) ==
    /\ loaded
    /\ ~unloaded
    /\ InputsSoFar < MaxInputs
    /\ settings.timeInterval # Null
    /\ settings' = [settings EXCEPT !.timeInterval = ParseInt(value)]
    /\ saving' = Append(saving, SaveData(settings'))
    /\ updates' = updates + 1
    /\ UNCHANGED <<loaded, unloaded, stored, timer, pending, nextHandle, now, doc,
                   reading, quizByTimer, quizByChange, rejected, delivered, timerLog>>

\* onChange of the word count field; display() reaches this field only
\* after the time interval field was built
ChangeWordCountThreshold(value) ==
    /\ loaded
    /\ ~unloaded
    /\ InputsSoFar < MaxInputs
    /\ settings.timeInterval # Null
    /\ settings.wordCountThreshold # Null
    /\ settings' = [settings EXCEPT !.wordCountThreshold = ParseInt(value)]
    /\ saving' = Append(saving, SaveData(settings'))
    /\ updates' = updates + 1
    /\ UNCHANGED <<loaded, unloaded, stored, timer, pending, nextHandle, now, doc,
                   reading, quizByTimer, quizByChange, rejected, delivered, timerLog>>

\* the oldest saveData in flight completes
SaveOk ==
    /\ saving # <<>>
    /\ stored' = Head(saving)
    /\ saving' = Tail(saving)
    /\ UNCHANGED <<loaded, unloaded, settings, timer, pending, nextHandle, now, doc,
                   reading, quizByTimer, quizByChange, rejected, delivered, updates,
                   timerLog>>

\* the oldest saveData in flight fails: the onChange handler's promise
\* rejects, and nobody handles it
SaveFail ==
    /\ saving # <<>>
    /\ saving' = Tail(saving)
    /\ rejected' = rejected + 1
    /\ UNCHANGED <<loaded, unloaded, stored, settings, timer, pending, nextHandle, now,
                   doc, reading, quizByTimer, quizByChange, delivered, updates,
                   timerLog>>

\* the onload calls so far, one per session of the app
Sessions == Cardinality({i \in 1..Len(timerLog) : timerLog[i].h = 1 /\ timerLog[i].op = "arm"})

\* the app is closed and started again: what the plugin held in memory and
\* what the host had in flight for it (timeouts, reads, writes) is gone, the
\* persisted data and the note stay, and onload runs in the new plugin
\* instance (loadSettings, then startTimer)
Reload ==
    /\ loaded
    /\ Sessions < MaxSessions
    /\ unloaded' = FALSE
    /\ settings' = LoadSettings(stored)
    /\ now' = 0
    /\ reading' = 0
    /\ saving' = <<>>
    /\ pending' = {[h |-> 1, at |-> TimeoutDelay(DelayMs(LoadSettings(stored)))]}
    /\ timer' = 1
    /\ nextHandle' = 2
    /\ timerLog' = Append(timerLog,
                          [op |-> "arm", h |-> 1, at |-> 0,
                           iv |-> LoadSettings(stored).timeInterval])
    /\ UNCHANGED <<loaded, stored, doc, quizByTimer, quizByChange, rejected,
                   delivered, updates>>

\* the plugin as the host runs it: startTimer is called by onload only
Next ==
    \/ OnLoad
    \/ OnUnload
    \/ Tick
    \/ \E p \in pending : TimerExpire(p)
    \/ \E c \in Contents : Modify(c)
    \/ ReadOk
    \/ ReadFail
    \/ \E value \in Inputs : ChangeTimeInterval(value)
    \/ \E value \in Inputs : ChangeWordCountThreshold(value)
    \/ SaveOk
    \/ SaveFail

Spec == Init /\ [][Next]_vars

\* the plugin with startTimer called again, as its callers may
NextArm ==
    \/ Next
    \/ StartTimer

SpecArm == Init /\ [][NextArm]_vars

\* the plugin over sessions of the app
NextReload ==
    \/ Next
    \/ Reload

SpecReload == Init /\ [][NextReload]_vars

\* the note-change handler on every note of at most MaxLen characters
NextWords ==
    \/ OnLoad
    \/ \E c \in Texts : Modify(c)
    \/ ReadOk
    \/ ReadFail

SpecWords == Init /\ [][NextWords]_vars

\* the host runs a due timeout, and time passes
FairSpec ==
    /\ Spec
    /\ WF_vars(Tick)
    /\ WF_vars(\E p \in pending : TimerExpire(p))

----------------------------------------------------------------------------
(* The timer's properties. *)

Positive(v) == IsNum(v) /\ v.n > 0

Arms == {i \in 1..Len(timerLog) : timerLog[i].op = "arm"}
Fires == {i \in 1..Len(timerLog) : timerLog[i].op = "fire"}

\* C1: in every reachable state at most one scheduled, not yet fired, not
\* cleared timeout exists, and it is the one this.timer holds: startTimer
\* clears the pending timeout before it schedules the new one.
C1_AtMostOneLiveTimer ==
    /\ Cardinality(pending) <= 1
    /\ \A p \in pending : p.h = timer

\* startTimer was called a second time while the first timeout was pending,
\* and one timeout, the second, is pending
C1_RearmedWhilePending ==
    /\ Len(timerLog) = 2
    /\ Arms = {1, 2}
    /\ timerLog[2].at < timerLog[1].at + timerLog[1].iv.n * 60000
    /\ pending = {[h |-> 2, at |-> timerLog[2].at + timerLog[2].iv.n * 60000]}

\* the timeouts run for the startTimer call logged at i
FiresOf(i) == {j \in Fires : timerLog[j].h = timerLog[i].h}

\* the safety half of C2: a startTimer call with a positive interval that no
\* later call follows has its timeout run at most once, interval * 60000 ms
\* after the call
C2_AtMostOnceOnTime ==
    \A i \in Arms :
        (Positive(timerLog[i].iv) /\ \A k \in Arms : k <= i) =>
            /\ Cardinality(FiresOf(i)) <= 1
            /\ \A j \in FiresOf(i) :
                   timerLog[j].at = timerLog[i].at + timerLog[i].iv.n * 60000

C2_Armed == loaded /\ Positive(timerLog[1].iv)

\* C2: for every interval > 0, after startTimer with no further startTimer
\* the timer calls triggerQuiz exactly once, interval * 60000 ms after the
\* call, and never a second time.
C2_ArmFiresExactlyOnce ==
    /\ [](C2_AtMostOnceOnTime /\ quizByTimer <= 1)
    /\ (C2_Armed ~> [](quizByTimer = 1 /\ Cardinality(Fires) = 1))

\* onload armed the timer with the default interval of 5 minutes and the
\* timeout ran, once, 300000 ms later
C2_FiredAfterInterval ==
    /\ quizByTimer = 1
    /\ timerLog = <<[op |-> "arm", h |-> 1, at |-> 0, iv |-> Num(5)],
                    [op |-> "fire", h |-> 1, at |-> 300000, iv |-> Null]>>

\* C3: of a sequence of startTimer calls made before the pending timeout
\* runs only the last call's schedule survives: every timeout that runs is
\* the one of the last startTimer call before it, nothing ran for that
\* sequence before, and with a positive interval it runs interval * 60000 ms
\* after that last call.
C3_LastArmWins ==
    \A j \in Fires :
        /\ j > 1
        /\ timerLog[j - 1].op = "arm"
        /\ timerLog[j - 1].h = timerLog[j].h
        /\ timerLog[j].at >= timerLog[j - 1].at
        /\ (Positive(timerLog[j - 1].iv) =>
               timerLog[j].at = timerLog[j - 1].at + timerLog[j - 1].iv.n * 60000)

\* interval 5 minutes, startTimer at t = 0 and again at t = 2 min: the
\* timeout ran at t = 7 min and nothing ran at t = 5 min
C3_RearmAtTwoFiresAtSeven ==
    /\ quizByTimer = 1
    /\ timerLog = <<[op |-> "arm", h |-> 1, at |-> 0, iv |-> Num(5)],
                    [op |-> "arm", h |-> 2, at |-> 120000, iv |-> Num(5)],
                    [op |-> "fire", h |-> 2, at |-> 420000, iv |-> Null]>>


\* a step that leaves no timeout pending without triggerQuiz being called
CancelStep == NextArm /\ pending' = {} /\ quizByTimer' = quizByTimer

\* C4: the scheduler offers a cancel operation: while a timeout is pending
\* the plugin has a step that cancels it, after which the timer never calls
\* triggerQuiz for that startTimer call.
C4_CancelOffered == pending # {} => ENABLED CancelStep

----------------------------------------------------------------------------
(* The note-change handler's properties. *)

\* a step in which a handleNoteChange call completes its evaluation
EvaluationStep == reading' = reading - 1 /\ rejected' = rejected

NonSpaceRuns(s) ==
    Cardinality({i \in 1..Len(s) : ~IsSpace(s[i]) /\ (i = 1 \/ IsSpace(s[i - 1]))})

\* C6: the word count handleNoteChange computes is the number of maximal
\* runs of non-white-space characters of the content; empty and white-space
\* only content counts 0 words and does not meet a positive threshold.
C6_WordCountIsRuns ==
    /\ WordCount(doc) = NonSpaceRuns(doc)
    /\ (\A i \in 1..Len(doc) : IsSpace(doc[i])) =>
           /\ WordCount(doc) = 0
           /\ (Positive(settings.wordCountThreshold) =>
                   ~ThresholdMet(WordCount(doc), settings))

\* a note with a blank and a line break between its two
\* words was evaluated against the threshold 2 and called triggerQuiz
C6_TwoWordsAmongSpaces ==
    /\ doc = <<"a", " ", "\n", "a">>
    /\ settings.wordCountThreshold = Num(2)
    /\ delivered = 1
    /\ reading = 0
    /\ quizByChange = 1

\* C7: when vault.read fails during a change event the event is dropped
\* silently: triggerQuiz is not called, no failure is left unhandled, and
\* the timer and the settings stay as they are.
C7_ReadFailureSilent ==
    [][ReadFail =>
          /\ rejected' = rejected
          /\ quizByChange' = quizByChange
          /\ UNCHANGED <<timer, pending, settings>>]_vars

----------------------------------------------------------------------------
(* The settings' properties. *)

Fields == {"timeInterval", "wordCountThreshold"}

\* the text denotes a positive number
ValidInput(value) == Positive(ParseInt(value))

\* C8: a settings update with an input that is not a positive number leaves
\* the setting as it was (and saves nothing).
C8_InvalidInputRejected ==
    [][\A value \in Inputs :
          (~ValidInput(value)
              /\ (ChangeTimeInterval(value) \/ ChangeWordCountThreshold(value)))
          => (settings' = settings /\ saving' = saving)]_vars

\* C9: after loadSettings both settings are positive numbers, whatever
\* updates, change events and timer events follow.
C9_SettingsPositive ==
    loaded => \A f \in Fields : Positive(settings[f])

\* C10: loadSettings gives every field its persisted value, and its default
\* when nothing is persisted, the field is missing or its persisted value
\* is malformed (not a number).
C10_LoadMergesOverDefaults ==
    (loaded /\ updates = 0) =>
        \A f \in Fields :
            settings[f] =
                IF stored.present /\ f \in DOMAIN stored.data /\ IsNum(stored.data[f])
                THEN stored.data[f]
                ELSE DEFAULT_SETTINGS[f]


----------------------------------------------------------------------------
(* The run of the plugin as a whole. *)

\* C12: the timer is armed exactly once, by onload with the settings just
\* loaded, and not again after it ran: over any run of the plugin the timer
\* calls triggerQuiz at most once.
C12_ArmedOnceFiresOnce ==
    /\ quizByTimer <= 1
    /\ Cardinality(Arms) = (IF loaded THEN 1 ELSE 0)
    /\ (loaded /\ updates = 0) => timerLog[1].iv = LoadSettings(stored).timeInterval
    /\ quizByTimer = 1 => pending = {}

\* the timer ran once although a change event was evaluated and a setting
\* was updated in that run; nothing is pending afterwards
C12_FiredOnceAmongEvents ==
    /\ quizByTimer = 1
    /\ delivered = 1
    /\ reading = 0
    /\ updates = 1
    /\ pending = {}

\* C13: the word count check keeps no state and is not reset by a trigger:
\* a change event whose content meets the threshold calls triggerQuiz also
\* when earlier events have called it already, so n such events in a row
\* give n calls.
C13_NoResetAfterTrigger ==
    [][(/\ EvaluationStep
        /\ quizByChange >= 1
        /\ IsNum(settings.wordCountThreshold)
        /\ WordCount(doc) >= settings.wordCountThreshold.n)
       => quizByChange' = quizByChange + 1]_vars

\* threshold 1 throughout: two change events on a note of two words, two
\* calls of triggerQuiz
C13_TwoEventsTwoTriggers ==
    /\ settings.wordCountThreshold = Num(1)
    /\ updates = 0
    /\ delivered = 2
    /\ reading = 0
    /\ rejected = 0
    /\ doc = <<"a", " ", "b">>
    /\ quizByChange = 2

\* C14: after a settings update and its save have completed the persisted
\* settings equal the settings in memory, in both fields, also after two
\* updates in a row.
C14_PersistedEqualsMemory ==
    (loaded /\ updates >= 1 /\ saving = <<>> /\ rejected = 0) =>
        /\ stored.present
        /\ stored.data = settings

\* C15: after onunload the timer calls triggerQuiz no more.
C15_NoTimerAfterUnload ==
    [][unloaded => quizByTimer' = quizByTimer]_vars

\* a step of handleNoteChange: an event is delivered or an evaluation ends
ChangeEventStep == delivered' # delivered \/ reading' # reading

\* C16: a change event, whether it calls triggerQuiz or not and whether its
\* read fails or not, leaves this.timer, the pending timeout and the
\* settings as they are (and calls triggerQuiz for the timer never), so the
\* timer still runs on schedule after a change-driven call.
C16_ChangeEventFrame ==
    [][ChangeEventStep =>
          /\ UNCHANGED <<timer, pending, settings, nextHandle, timerLog>>
          /\ quizByTimer' = quizByTimer]_vars

\* interval 1 minute, threshold 2: a change event on a note of two words
\* called triggerQuiz before the timeout ran, and the timeout ran on time
C16_ChangeThenTimerBothTrigger ==
    /\ quizByChange = 1
    /\ quizByTimer = 1
    /\ delivered = 1
    /\ timerLog = <<[op |-> "arm", h |-> 1, at |-> 0, iv |-> Num(1)],
                    [op |-> "fire", h |-> 1, at |-> 60000, iv |-> Null]>>

\* the delay window.setTimeout makes of an interval
ExpectedDelay(iv) == IF Positive(iv) THEN iv.n * 60000 ELSE 0

\* C17: a settings update leaves the pending timeout untouched and
\* schedules none: the timeout stays due at the delay computed from the
\* interval that was in settings when startTimer ran.
C17_UpdateLeavesTimer ==
    /\ [][updates' # updates =>
             UNCHANGED <<timer, pending, nextHandle, timerLog>>]_vars
    /\ [](\A p \in pending :
             /\ timerLog[Len(timerLog)].op = "arm"
             /\ p.h = timerLog[Len(timerLog)].h
             /\ p.at = timerLog[Len(timerLog)].at
                         + ExpectedDelay(timerLog[Len(timerLog)].iv))

\* armed with the default 5 minutes; the interval was then set to 1, and
\* four minutes after onload the timeout is still pending, due at 300000 ms
C17_UpdatedWhilePending ==
    /\ updates >= 1
    /\ settings.timeInterval = Num(1)
    /\ now = 4
    /\ pending = {[h |-> 1, at |-> 300000]}

\* C18: the threshold a change event is compared with is the one in
\* settings when its read completes, whatever it was when the event was
\* delivered, and the content is the note's at that moment; every change
\* event calls triggerQuiz at most once.
C18_ThresholdAtCompletion ==
    /\ [][EvaluationStep =>
             quizByChange' = quizByChange +
                 (IF GreaterEq(Num(WordCount(doc)), settings.wordCountThreshold)
                  THEN 1 ELSE 0)]_vars
    /\ [](quizByChange + reading <= delivered)

\* a step that sets the threshold so that the note no longer meets it
ThresholdRaised ==
    /\ \E value \in Inputs : ChangeWordCountThreshold(value)
    /\ ~ThresholdMet(WordCount(doc'), settings')

\* a change event is delivered and its read not yet complete; completed
\* now it would call triggerQuiz, and a threshold update can come first
\* after which it will not
C18_UpdateCanComeFirst ==
    /\ reading = 1
    /\ delivered = 1
    /\ ThresholdMet(WordCount(doc), settings)
    /\ ENABLED ThresholdRaised

\* C19: this.timer is null only before the first startTimer; from then on
\* it holds the handle of the last startTimer call, also after that timeout
\* has run, so a later startTimer clears a handle that is no longer pending,
\* which changes nothing but this.timer and the new timeout.
C19_HandleKept ==
    /\ (timer = 0) <=> ~loaded
    /\ loaded => timer = nextHandle - 1
    /\ \A j \in Fires : \A k \in Fires : timerLog[j].h = timerLog[k].h => j = k

\* startTimer was called again after the timeout had run: triggerQuiz was
\* called once, and the second timeout is the one pending
C19_RearmedAfterFire ==
    /\ Len(timerLog) = 3
    /\ timerLog[1].op = "arm"
    /\ timerLog[2].op = "fire"
    /\ timerLog[3].op = "arm"
    /\ timer = 2
    /\ quizByTimer = 1
    /\ Cardinality(pending) = 1

====
